---- MODULE Spec2Model ----
(***************************************************************************)
(* Model of the Buddhabrot heatmap engine of src/buddhabrot.cpp: the       *)
(* escape-trajectory sampler (buddhabrotPoints), the coordinate mapper     *)
(* (rowFromReal, colFromImaginary), the accumulation loop                  *)
(* (GenerateHeatmap), the normalizer (colorFromHeatmap) and the part of    *)
(* main that runs the three channel passes and scales the heatmaps.        *)
(*                                                                         *)
(* Numbers.  A double or float value is modelled by the exact rational it  *)
(* holds, a pair <<n, d>> in lowest terms with d > 0; d = 0 encodes the    *)
(* IEEE specials: <<1,0>> is +inf, <<-1,0>> is -inf, <<0,0>> is NaN.  The  *)
(* inputs of the model are dyadic rationals with few bits, on which double *)
(* +, -, * are exact; where the code rounds (the float division and the    *)
(* double-to-float conversion of colorFromHeatmap) the rounding to a       *)
(* 24-bit significand, ties to even, is modelled explicitly.               *)
(***************************************************************************)
EXTENDS Integers, Sequences, FiniteSets, TLC

VARIABLES
    \* ---- the run of main (specification Spec)
    pc,               \* position of main: "gen", "render", "crashed" ("idle": not run)
    chan,             \* index into ChannelOrder of the running GenerateHeatmap call
    sampleIdx,        \* sampleIdx of the running GenerateHeatmap call
    pointsList,       \* the part of pointsList the inner loop still has to visit
    heat,             \* red, green, blue: heat[ch][row][col], a float
    maxHeatmapValue,  \* main's maxHeatmapValue, shared by the three calls
    vertices,         \* the colour triples pushed to main's vertices
    drawn,            \* history: drawn[ch][c] = how often sample c was drawn for ch
    stray,            \* history: an increment addressed a cell outside the grid
    \* ---- one call of buddhabrotPoints (specification SpecPoints)
    ptC, ptN, ptCalled, ptOut,
    \* ---- one call of rowFromReal and colFromImaginary (specification SpecMapper)
    mpRect, mpRow, mpCol, mpCalled, mpOut,
    \* ---- one call of colorFromHeatmap (specification SpecColor)
    clV, clM, clCalled, clOut

mainVars == <<pc, chan, sampleIdx, pointsList, heat, maxHeatmapValue, vertices, drawn, stray>>
ptVars == <<ptC, ptN, ptCalled, ptOut>>
mpVars == <<mpRect, mpRow, mpCol, mpCalled, mpOut>>
clVars == <<clV, clM, clCalled, clOut>>
vars == <<mainVars, ptVars, mpVars, clVars>>

----------------------------------------------------------------------------
(* Bounds of the model.  The program's own values (200 x 200 cells, 200 /  *)
(* 800 / 200 iterations, 4000000 samples per channel) are far beyond what  *)
(* can be enumerated; the model keeps their roles and relations.           *)

IMAGE_HEIGHT == 3
IMAGE_WIDTH == 2
RED_ITERS == 3
BLUE_ITERS == 4
GREEN_ITERS == 3
SAMPLE_COUNT == 2
\* largest iteration budget tried on buddhabrotPoints alone
MaxIters == 3
\* largest grid side tried on the mapper alone
MaxSide == 4
\* largest accumulated count tried on colorFromHeatmap alone
MaxHeat == 41
\* the value read from memory outside the grid by a stray increment
MaxGarbage == 5

----------------------------------------------------------------------------
(* Exact rationals for the values doubles and floats hold.                 *)

Abs(x) == IF x < 0 THEN -x ELSE x

RECURSIVE Gcd(_, _)
Gcd(a, b) == IF b = 0 THEN a ELSE Gcd(b, a % b)

\* the rational n/d, d # 0, in lowest terms with a positive denominator
Rat(n, d) ==
    LET g == Gcd(Abs(n), Abs(d))
        s == IF d < 0 THEN -1 ELSE 1
    IN  <<(s * n) \div g, (s * d) \div g>>

NaN == <<0, 0>>
PosInf == <<1, 0>>
NegInf == <<-1, 0>>
IsFinite(x) == x[2] # 0
Sign(k) == IF k > 0 THEN 1 ELSE IF k < 0 THEN -1 ELSE 0
FromInt(k) == <<k, 1>>

RAdd(x, y) == Rat(x[1] * y[2] + y[1] * x[2], x[2] * y[2])
RSub(x, y) == Rat(x[1] * y[2] - y[1] * x[2], x[2] * y[2])

\* IEEE multiplication: 0 * inf and NaN * x are NaN
RMul(x, y) ==
    IF IsFinite(x) /\ IsFinite(y) THEN Rat(x[1] * y[1], x[2] * y[2])
    ELSE IF x = NaN \/ y = NaN \/ x[1] = 0 \/ y[1] = 0 THEN NaN
    ELSE <<Sign(x[1]) * Sign(y[1]), 0>>

\* IEEE division of finite values: x / 0 is an infinity, 0 / 0 is NaN
RDiv(x, y) ==
    IF y[1] = 0 THEN <<Sign(x[1]), 0>>
    ELSE Rat(x[1] * y[2], x[2] * y[1])

\* comparisons of finite values; every comparison with NaN is false
RLeq(x, y) == IsFinite(x) /\ IsFinite(y) /\ x[1] * y[2] <= y[1] * x[2]
RGt(x, y) ==
    /\ x # NaN /\ y # NaN
    /\ IF IsFinite(x) /\ IsFinite(y) THEN x[1] * y[2] > y[1] * x[2]
       ELSE IF IsFinite(y) THEN x = PosInf
       ELSE IF IsFinite(x) THEN y = NegInf
       ELSE x = PosInf /\ y = NegInf

\* the C++ cast (int)x of a finite value: truncation toward zero
TruncToInt(x) ==
    IF x[1] >= 0 THEN x[1] \div x[2] ELSE -((-x[1]) \div x[2])

----------------------------------------------------------------------------
(* class Complex: a pair of doubles over the common denominator d.         *)

Cx(a, b, d) ==
    LET g == Gcd(Gcd(Abs(a), Abs(b)), d)
    IN  [r |-> a \div g, i |-> b \div g, d |-> d \div g]

Re(z) == Rat(z.r, z.d)
Im(z) == Rat(z.i, z.d)

\* Complex::operator*
CMul(z, w) == Cx(z.r * w.r - z.i * w.i, z.r * w.i + z.i * w.r, z.d * w.d)

\* Complex::operator+
CAdd(z, w) == Cx(z.r * w.d + w.r * z.d, z.i * w.d + w.i * z.d, z.d * w.d)

\* Complex::sqmagnitude
sqmagnitude(z) == Rat(z.r * z.r + z.i * z.i, z.d * z.d)

Zero == Cx(0, 0, 1)
Two == FromInt(2)

----------------------------------------------------------------------------
(* buddhabrotPoints                                                        *)

\* the loop with push_back(z) placed before z = z * z + c (a mutant of
\* PointsLoop)
RECURSIVE PointsLoop_PushBefore(_, _, _, _, _)
PointsLoop_PushBefore(c, nIterations, n, z, toReturn) ==
    IF n < nIterations /\ RLeq(sqmagnitude(z), Two)
    THEN PointsLoop_PushBefore(c, nIterations, n + 1, CAdd(CMul(z, z), c),
                               Append(toReturn, z))
    ELSE <<n, z, toReturn>>

\* the while loop: the state <<n, z, toReturn>> it ends in
RECURSIVE PointsLoop(_, _, _, _, _)
PointsLoop(c, nIterations, n, z, toReturn) ==
    IF n < nIterations /\ RLeq(sqmagnitude(z), Two)
    THEN LET z2 == CAdd(CMul(z, z), c)
         IN  PointsLoop(c, nIterations, n + 1, z2, Append(toReturn, z2))
    ELSE <<n, z, toReturn>>

\* the return without the test n == nIterations (a mutant of PointsResult)
PointsResult_NeverEmpty(n, nIterations, toReturn) == toReturn

\* the value returned once the loop has ended in n with toReturn

PointsResult(n, nIterations, toReturn) ==
    IF n = nIterations THEN <<>> ELSE toReturn

buddhabrotPoints(c, nIterations) ==
    LET end == PointsLoop(c, nIterations, 0, Zero, <<>>)
    IN  PointsResult(end[1], nIterations, end[3])

----------------------------------------------------------------------------
(* rowFromReal, colFromImaginary                                           *)

\* the mapper with the offset minR not subtracted (a mutant of rowFromReal)
rowFromReal_NoOffset(real, minR, maxR, imageHeight) ==
    TruncToInt(RMul(real, RDiv(FromInt(imageHeight), RSub(maxR, minR))))

rowFromReal(real, minR, maxR, imageHeight) ==
    TruncToInt(RMul(RSub(real, minR), RDiv(FromInt(imageHeight), RSub(maxR, minR))))

colFromImaginary(imag, minI, maxI, imageWidth) ==
    TruncToInt(RMul(RSub(imag, minI), RDiv(FromInt(imageWidth), RSub(maxI, minI))))

----------------------------------------------------------------------------
(* float arithmetic of colorFromHeatmap                                    *)

\* n/d rounded to an integer, ties to the even neighbour (n >= 0, d > 0)
RoundHalfEven(n, d) ==
    LET q == n \div d
        r == n % d
    IN  IF 2 * r < d THEN q
        ELSE IF 2 * r > d THEN q + 1
        ELSE IF q % 2 = 0 THEN q ELSE q + 1

\* a/d < 2^23 scaled up by 2^e until 2^23 <= a/d: <<a, d, e>>
RECURSIVE ScaleUp(_, _, _)
ScaleUp(a, d, e) ==
    IF a \div d >= 2^23 THEN <<a, d, e>>
    ELSE IF d % 2 = 0 THEN ScaleUp(a, d \div 2, e + 1)
    ELSE ScaleUp(2 * a, d, e + 1)

\* a/d >= 2^24 scaled down by 2^j until a/d < 2^24: <<a, d, j>>
RECURSIVE ScaleDown(_, _, _)
ScaleDown(a, d, j) ==
    IF a \div d < 2^24 THEN <<a, d, j>>
    ELSE ScaleDown(a, 2 * d, j + 1)

\* the float nearest to x: a 24-bit significand, round to nearest, ties to
\* even (the exponent range of float is not reached by the model's values)
RoundToFloat(x) ==
    IF ~IsFinite(x) \/ x[1] = 0 THEN x
    ELSE LET s == Sign(x[1])
             a == Abs(x[1])
         IN  IF a \div x[2] >= 2^24
             THEN LET t == ScaleDown(a, x[2], 0)
                  IN  Rat(s * RoundHalfEven(t[1], t[2]) * 2^t[3], 1)
             ELSE LET t == ScaleUp(a, x[2], 0)
                  IN  Rat(s * RoundHalfEven(t[1], t[2]), 2^t[3])

\* float / float, evaluated in float
FloatDiv(x, y) == RoundToFloat(RDiv(x, y))

----------------------------------------------------------------------------
(* colorFromHeatmap                                                        *)

colorFromHeatmap(inputValue, maxHeatmapValue_, maxColor) ==
    LET \* double scale = (1.0f * (maxColor)) / (1.0f * maxHeatmapValue);
        scale == FloatDiv(maxColor, maxHeatmapValue_)
        \* return inputValue * scale;  the product of two 24-bit significands
        \* is exact in double, the return converts it to float
    IN  RoundToFloat(RMul(inputValue, scale))

----------------------------------------------------------------------------
(* main: the configuration and the heatmaps                                *)

MINIMUM == Cx(-2, -2, 1)
MAXIMUM == Cx(2, 2, 1)

Channels == {"red", "green", "blue"}
\* the order of the three GenerateHeatmap calls of main
ChannelOrder == <<"red", "blue", "green">>
Iters(ch) ==
    IF ch = "red" THEN RED_ITERS ELSE IF ch = "blue" THEN BLUE_ITERS ELSE GREEN_ITERS

Rows == 0 .. IMAGE_HEIGHT - 1
Cols == 0 .. IMAGE_WIDTH - 1

\* AllocHeatmap: height rows of width cells, all 0
AllocHeatmap(width, height) ==
    [row \in 0 .. height - 1 |-> [col \in 0 .. width - 1 |-> FromInt(0)]]

\* The values realDistribution(rng), imagDistribution(rng) can return that
\* the model draws from: doubles of [MINIMUM, MAXIMUM) with few bits.
\*   (0,0)      never escapes
\*   (1,0)      1, 2: escapes at iteration 2 on the point (2,0)
\*   (1/2,1)    escapes at iteration 2 on the point (-1/4,2)
\*   (-2,-2)    escapes at iteration 1, on the minimum corner
\*   (1,-1)     escapes at iteration 2 on (1,-3), outside the rectangle
\*   (1/2,1/2)  escapes at iteration 3, all three points inside
Samples ==
    { Cx(0, 0, 1), Cx(1, 0, 1), Cx(1, 2, 2), Cx(-2, -2, 1), Cx(1, -1, 1), Cx(1, 1, 2) }

----------------------------------------------------------------------------
(* GenerateHeatmap                                                         *)

\* the bounds filter of the inner loop
InBounds(point, minimum, maximum) ==
    /\ RLeq(Re(point), Re(maximum)) /\ RLeq(Re(minimum), Re(point))
    /\ RLeq(Im(point), Im(maximum)) /\ RLeq(Im(minimum), Im(point))

RowOf(point) == rowFromReal(Re(point), Re(MINIMUM), Re(MAXIMUM), IMAGE_HEIGHT)
ColOf(point) == colFromImaginary(Im(point), Im(MINIMUM), Im(MAXIMUM), IMAGE_WIDTH)
InGrid(row, col) == row \in Rows /\ col \in Cols

\* the heatmap cells a stray increment is let to land on: of the cells it
\* can hit, the model tries one, the first cell of green
StrayCells == {<<"green", 0, 0>>}

Running == pc = "gen" /\ chan \in 1 .. 3
Channel == ChannelOrder[chan]

\* ++o_heatmap[row][col] on an allocated cell
Incremented(h, ch, row, col) ==
    [h EXCEPT ![ch][row][col] = RAdd(@, FromInt(1))]

\* if (o_heatmap[row][col] > o_maxHeatmapValue) o_maxHeatmapValue = ...
MaxAfter(value, oldMax) == IF RGt(value, oldMax) THEN value ELSE oldMax

\* one turn of the sample loop as far as the call of buddhabrotPoints
DrawSample ==
    /\ Running /\ pointsList = <<>> /\ sampleIdx < SAMPLE_COUNT
    /\ \E sample \in Samples :
          /\ pointsList' = buddhabrotPoints(sample, Iters(Channel))
          /\ drawn' = [drawn EXCEPT ![Channel][sample] = @ + 1]
    /\ sampleIdx' = sampleIdx + 1
    /\ UNCHANGED <<pc, chan, heat, maxHeatmapValue, vertices, stray>>
    /\ UNCHANGED <<ptVars, mpVars, clVars>>

\* a point of pointsList the filter rejects
SkipPoint ==
    /\ Running /\ pointsList # <<>>
    /\ ~InBounds(Head(pointsList), MINIMUM, MAXIMUM)
    /\ pointsList' = Tail(pointsList)
    /\ UNCHANGED <<pc, chan, sampleIdx, heat, maxHeatmapValue, vertices, drawn, stray>>
    /\ UNCHANGED <<ptVars, mpVars, clVars>>

\* a point the filter accepts whose row and column are cells of the grid
AccumulatePoint ==
    /\ Running /\ pointsList # <<>>
    /\ InBounds(Head(pointsList), MINIMUM, MAXIMUM)
    /\ LET row == RowOf(Head(pointsList))
           col == ColOf(Head(pointsList))
       IN  /\ InGrid(row, col)
           /\ heat' = Incremented(heat, Channel, row, col)
           /\ maxHeatmapValue' = MaxAfter(heat'[Channel][row][col], maxHeatmapValue)
    /\ pointsList' = Tail(pointsList)
    /\ UNCHANGED <<pc, chan, sampleIdx, vertices, drawn, stray>>
    /\ UNCHANGED <<ptVars, mpVars, clVars>>

\* A point the filter accepts whose row is imageHeight or whose column is
\* imageWidth: ++o_heatmap[row][col] reads and writes outside the allocated
\* arrays, which is undefined behaviour.  The outcomes modelled:
OutOfGrid ==
    /\ Running /\ pointsList # <<>>
    /\ InBounds(Head(pointsList), MINIMUM, MAXIMUM)
    /\ ~InGrid(RowOf(Head(pointsList)), ColOf(Head(pointsList)))

\*   the access faults and the process ends
StrayFault ==
    /\ OutOfGrid
    /\ pc' = "crashed"
    /\ stray' = TRUE
    /\ UNCHANGED <<chan, sampleIdx, pointsList, heat, maxHeatmapValue, vertices, drawn>>
    /\ UNCHANGED <<ptVars, mpVars, clVars>>

\*   the access hits memory that is no heatmap cell: the value found there
\*   is incremented and compared with o_maxHeatmapValue
StrayOutside ==
    /\ OutOfGrid
    /\ \E garbage \in {0, MaxGarbage} :
          maxHeatmapValue' = MaxAfter(FromInt(garbage + 1), maxHeatmapValue)
    /\ pointsList' = Tail(pointsList)
    /\ stray' = TRUE
    /\ UNCHANGED <<pc, chan, sampleIdx, heat, vertices, drawn>>
    /\ UNCHANGED <<ptVars, mpVars, clVars>>

\*   the access hits a cell of one of the three heatmaps
StrayInside ==
    /\ OutOfGrid
    /\ \E cell \in StrayCells :
          /\ heat' = Incremented(heat, cell[1], cell[2], cell[3])
          /\ maxHeatmapValue' = MaxAfter(heat'[cell[1]][cell[2]][cell[3]], maxHeatmapValue)
    /\ pointsList' = Tail(pointsList)
    /\ stray' = TRUE
    /\ UNCHANGED <<pc, chan, sampleIdx, vertices, drawn>>
    /\ UNCHANGED <<ptVars, mpVars, clVars>>

\* GenerateHeatmap returns and main calls it for the next channel
NextChannel ==
    /\ Running /\ pointsList = <<>> /\ sampleIdx = SAMPLE_COUNT
    /\ chan < 3
    /\ chan' = chan + 1
    /\ sampleIdx' = 0
    /\ UNCHANGED <<pc, pointsList, heat, maxHeatmapValue, vertices, drawn, stray>>
    /\ UNCHANGED <<ptVars, mpVars, clVars>>

----------------------------------------------------------------------------
(* main: "Scale the heatmap down" and the hand-over to the renderer        *)

\* the cells of the grid in the order of the two nested loops
CellSeq == [k \in 1 .. IMAGE_HEIGHT * IMAGE_WIDTH |->
              <<(k - 1) \div IMAGE_WIDTH, (k - 1) % IMAGE_WIDTH>>]

\* the whole scaling loop: every cell of every channel is overwritten by
\* its colour, and the colours are pushed to vertices (red, green, blue).
\* With pc = "render" main goes on to the renderer, which reads vertices and
\* is not modelled (window, shaders, glBufferData, the render loop).
ScaleHeatmap ==
    /\ Running /\ pointsList = <<>> /\ sampleIdx = SAMPLE_COUNT
    /\ chan = 3
    /\ heat' = [ch \in Channels |-> [row \in Rows |-> [col \in Cols |->
                  colorFromHeatmap(heat[ch][row][col], maxHeatmapValue, FromInt(1))]]]
    /\ vertices' = [k \in 1 .. Len(CellSeq) |->
                      LET row == CellSeq[k][1]
                          col == CellSeq[k][2]
                      IN  <<heat'["red"][row][col], heat'["green"][row][col],
                            heat'["blue"][row][col]>>]
    /\ pc' = "render"
    /\ UNCHANGED <<chan, sampleIdx, pointsList, maxHeatmapValue, drawn, stray>>
    /\ UNCHANGED <<ptVars, mpVars, clVars>>

----------------------------------------------------------------------------
(* The initial states                                                      *)

MainInit ==
    /\ pc = "gen"
    /\ chan = 1
    /\ sampleIdx = 0
    /\ pointsList = <<>>
    /\ heat = [ch \in Channels |-> AllocHeatmap(IMAGE_WIDTH, IMAGE_HEIGHT)]
    /\ maxHeatmapValue = FromInt(0)
    /\ vertices = <<>>
    /\ drawn = [ch \in Channels |-> [c \in Samples |-> 0]]
    /\ stray = FALSE

\* main is not run
MainIdle ==
    /\ pc = "idle"
    /\ chan = 0
    /\ sampleIdx = 0
    /\ pointsList = <<>>
    /\ heat = [ch \in Channels |-> AllocHeatmap(IMAGE_WIDTH, IMAGE_HEIGHT)]
    /\ maxHeatmapValue = FromInt(0)
    /\ vertices = <<>>
    /\ drawn = [ch \in Channels |-> [c \in Samples |-> 0]]
    /\ stray = FALSE

PointsIdle == ptC = Zero /\ ptN = 0 /\ ptCalled = FALSE /\ ptOut = <<>>
MapperIdle ==
    /\ mpRect = <<Re(MINIMUM), Re(MAXIMUM), Im(MINIMUM), Im(MAXIMUM), IMAGE_HEIGHT, IMAGE_WIDTH>>
    /\ mpRow = 0 /\ mpCol = 0 /\ mpCalled = FALSE /\ mpOut = <<0, 0>>
ColorIdle == clV = FromInt(0) /\ clM = FromInt(0) /\ clCalled = FALSE /\ clOut = FromInt(0)

Init == MainInit /\ PointsIdle /\ MapperIdle /\ ColorIdle

Next ==
    \/ DrawSample
    \/ SkipPoint
    \/ AccumulatePoint
    \/ StrayFault
    \/ StrayOutside
    \/ StrayInside
    \/ NextChannel
    \/ ScaleHeatmap

Spec == Init /\ [][Next]_vars

----------------------------------------------------------------------------
(* buddhabrotPoints alone: one call on a sample of the half-unit lattice   *)
(* of [MINIMUM, MAXIMUM) with a budget of 1 .. MaxIters                    *)

SampleGrid == { Cx(a, b, 2) : a, b \in -4 .. 3 }

PointsInit ==
    /\ ptC \in SampleGrid
    /\ ptN \in 1 .. MaxIters
    /\ ptCalled = FALSE
    /\ ptOut = <<>>

CallPoints ==
    /\ ~ptCalled
    /\ ptOut' = buddhabrotPoints(ptC, ptN)
    /\ ptCalled' = TRUE
    /\ UNCHANGED <<ptC, ptN>>
    /\ UNCHANGED <<mainVars, mpVars, clVars>>

InitPoints == MainIdle /\ PointsInit /\ MapperIdle /\ ColorIdle
NextPoints == CallPoints
SpecPoints == InitPoints /\ [][NextPoints]_vars

----------------------------------------------------------------------------
(* rowFromReal and colFromImaginary alone: one call on the midpoint of a   *)
(* cell of a grid of up to MaxSide x MaxSide cells over a non-degenerate   *)
(* rectangle.  The quotient imageHeight / (maxR - minR) and the midpoint   *)
(* are taken exactly; the rounding of a double (relative error 2^-53) does *)
(* not move a value that lies half a cell away from the cell's edges.      *)

Coords == { FromInt(-2), Rat(-1, 2), FromInt(0), FromInt(1), FromInt(2) }
Less(x, y) == RLeq(x, y) /\ x # y

\* <<minR, maxR, minI, maxI, imageHeight, imageWidth>>
Rects ==
    { <<minR, maxR, minI, maxI, h, w>> :
        minR \in Coords, maxR \in Coords, minI \in Coords, maxI \in Coords,
        h \in 1 .. MaxSide, w \in 1 .. MaxSide }

\* minR + (row + 1/2) * (maxR - minR) / imageHeight
Midpoint(k, lo, hi, n) ==
    RAdd(lo, RDiv(RMul(Rat(2 * k + 1, 2), RSub(hi, lo)), FromInt(n)))

MapperInit ==
    /\ mpRect \in { q \in Rects : Less(q[1], q[2]) /\ Less(q[3], q[4]) }
    /\ mpRow \in 0 .. MaxSide - 1 /\ mpRow < mpRect[5]
    /\ mpCol \in 0 .. MaxSide - 1 /\ mpCol < mpRect[6]
    /\ mpCalled = FALSE
    /\ mpOut = <<0, 0>>

CallMapper ==
    /\ ~mpCalled
    /\ mpOut' = << rowFromReal(Midpoint(mpRow, mpRect[1], mpRect[2], mpRect[5]),
                               mpRect[1], mpRect[2], mpRect[5]),
                   colFromImaginary(Midpoint(mpCol, mpRect[3], mpRect[4], mpRect[6]),
                                    mpRect[3], mpRect[4], mpRect[6]) >>
    /\ mpCalled' = TRUE
    /\ UNCHANGED <<mpRect, mpRow, mpCol>>
    /\ UNCHANGED <<mainVars, ptVars, clVars>>

InitMapper == MainIdle /\ PointsIdle /\ MapperInit /\ ColorIdle
NextMapper == CallMapper
SpecMapper == InitMapper /\ [][NextMapper]_vars

----------------------------------------------------------------------------
(* colorFromHeatmap alone: one call on a count inputValue of a heatmap     *)
(* whose largest count is maxHeatmapValue, 1 .. MaxHeat.  (The run of main *)
(* reaches the call with maxHeatmapValue = 0.)                             *)

ColorInit ==
    /\ clM \in { FromInt(m) : m \in 1 .. MaxHeat }
    /\ clV \in { FromInt(v) : v \in 0 .. MaxHeat } /\ RLeq(clV, clM)
    /\ clCalled = FALSE
    /\ clOut = FromInt(0)

CallColor ==
    /\ ~clCalled
    /\ clOut' = colorFromHeatmap(clV, clM, FromInt(1))
    /\ clCalled' = TRUE
    /\ UNCHANGED <<clV, clM>>
    /\ UNCHANGED <<mainVars, ptVars, mpVars>>

InitColor == MainIdle /\ PointsIdle /\ MapperIdle /\ ColorInit
NextColor == CallColor
SpecColor == InitColor /\ [][NextColor]_vars

----------------------------------------------------------------------------
(* The properties                                                          *)

\* the iteration at which z <- z*z + c, started in z = 0, first has a
\* squared magnitude > 2.0 (counted from 1), or 0 when none of z_1 .. z_B has
RECURSIVE EscapeFrom(_, _, _, _)
EscapeFrom(c, B, k, zPrev) ==
    IF k > B THEN 0
    ELSE LET z == CAdd(CMul(zPrev, zPrev), c)
         IN  IF RGt(sqmagnitude(z), Two) THEN k ELSE EscapeFrom(c, B, k + 1, z)

FirstEscape(c, B) == EscapeFrom(c, B, 1, Zero)

\* C1: GenerateHeatmap never increments a cell outside the grid: every
\* trajectory point that passes the bounds filter is mapped to a row in
\* [0, imageHeight) and a column in [0, imageWidth); a point on the maximum
\* edge of the rectangle is filtered out.
C1_IncrementsStayInGrid ==
    /\ ~stray
    /\ (Running /\ pointsList # <<>> /\ InBounds(Head(pointsList), MINIMUM, MAXIMUM))
          => InGrid(RowOf(Head(pointsList)), ColOf(Head(pointsList)))

\* C2: a sample that first escapes at iteration k, 1 <= k <= B (k = B
\* included), gets a trajectory of length exactly k whose last element has a
\* squared magnitude > 2.0 and whose earlier elements have one <= 2.0.
C2_EscapingTrajectoryHasLengthK ==
    LET k == FirstEscape(ptC, ptN)
    IN  (ptCalled /\ k >= 1) =>
           /\ Len(ptOut) = k
           /\ RGt(sqmagnitude(ptOut[k]), Two)
           /\ \A j \in 1 .. k - 1 : RLeq(sqmagnitude(ptOut[j]), Two)

\* C3: a sample none of whose iterates z_1 .. z_B has a squared magnitude
\* > 2.0 gets the empty trajectory.
C3_BoundedSampleIsEmpty ==
    (ptCalled /\ FirstEscape(ptC, ptN) = 0) => ptOut = <<>>

\* C3 witness: a call on a sample other than 0 that stays bounded through a
\* budget of more than one iteration has returned.
C3_Witness ==
    /\ ptCalled /\ ptN > 1 /\ ptC # Zero
    /\ FirstEscape(ptC, ptN) = 0
    /\ ptOut = <<>>

\* C4: with GlobalMaxCount 0 at normalization time the program does not
\* divide by it and does not go on to build the vertex buffer and render:
\* wherever main has scaled the heatmaps, maxHeatmapValue was not 0 and no
\* colour handed to the renderer is NaN.
C4_ZeroMaxIsNotRendered ==
    pc = "render" =>
        /\ maxHeatmapValue # FromInt(0)
        /\ \A k \in 1 .. Len(vertices) : \A j \in 1 .. 3 : vertices[k][j] # NaN

\* C5: colorFromHeatmap maps every count of a heatmap into [0, 1], and the
\* count that equals GlobalMaxCount to exactly 1.0.
C5_NormalizedWithinUnit ==
    clCalled =>
        /\ RLeq(FromInt(0), clOut) /\ RLeq(clOut, FromInt(1))
        /\ (clV = clM => clOut = FromInt(1))

CellValues(h) == { h[ch][row][col] : ch \in Channels, row \in Rows, col \in Cols }

\* C6: while the three GenerateHeatmap calls run, after every increment the
\* shared maxHeatmapValue is the maximum cell value over all three heatmaps.
C6_MaxIsMaxOfAllCells ==
    pc = "gen" =>
        /\ maxHeatmapValue \in CellValues(heat)
        /\ \A v \in CellValues(heat) : RLeq(v, maxHeatmapValue)

\* the number of points of the trajectory of sample c under budget B that
\* pass the filter and are mapped to the cell (row, col)
Hits(c, B, row, col) ==
    LET pts == buddhabrotPoints(c, B)
    IN  Cardinality({ k \in 1 .. Len(pts) :
                        /\ InBounds(pts[k], MINIMUM, MAXIMUM)
                        /\ RowOf(pts[k]) = row /\ ColOf(pts[k]) = col })

\* what the multiset drawn[ch] of samples contributes to the cell (row, col)
RECURSIVE ExpectedFrom(_, _, _, _)
ExpectedFrom(S, ch, row, col) ==
    IF S = {} THEN 0
    ELSE LET c == CHOOSE x \in S : TRUE
         IN  drawn[ch][c] * Hits(c, Iters(ch), row, col)
               + ExpectedFrom(S \ {c}, ch, row, col)

Expected(ch, row, col) == ExpectedFrom(Samples, ch, row, col)

GenerationDone ==
    Running /\ chan = 3 /\ sampleIdx = SAMPLE_COUNT /\ pointsList = <<>>

\* C7: the final heatmaps and the final GlobalMaxCount are a function of the
\* multisets of samples drawn, whatever the order they were processed in.
C7_OrderIndependent ==
    GenerationDone =>
        /\ \A ch \in Channels, row \in Rows, col \in Cols :
              heat[ch][row][col] = FromInt(Expected(ch, row, col))
        /\ \E ch \in Channels, row \in Rows, col \in Cols :
              maxHeatmapValue = FromInt(Expected(ch, row, col))
        /\ \A ch \in Channels, row \in Rows, col \in Cols :
              RLeq(FromInt(Expected(ch, row, col)), maxHeatmapValue)

\* C8: a trajectory point inside the viewing rectangle increases exactly one
\* cell of the running channel by exactly 1 and changes no other cell; a
\* point outside the rectangle, and a sample with an empty trajectory, leave
\* the heatmaps and GlobalMaxCount unchanged.
C8_OnePointOneCell ==
    [][ /\ (Running /\ pointsList # <<>>) =>
              IF InBounds(Head(pointsList), MINIMUM, MAXIMUM)
              THEN \E row \in Rows, col \in Cols :
                      heat' = Incremented(heat, Channel, row, col)
              ELSE heat' = heat /\ maxHeatmapValue' = maxHeatmapValue
        /\ (Running /\ sampleIdx' = sampleIdx + 1 /\ pointsList' = <<>>) =>
              (heat' = heat /\ maxHeatmapValue' = maxHeatmapValue)
      ]_vars

\* C9: the mapper, applied to the midpoint of the cell (row, col), returns
\* (row, col).
C9_MidpointRoundTrip ==
    mpCalled => mpOut = <<mpRow, mpCol>>

\* C9 witness: the round trip of a cell that is not the first of its row or
\* column, on a grid that is not square, over a rectangle whose minimum is
\* not the origin.
C9_Witness ==
    /\ mpCalled
    /\ mpRow > 0 /\ mpCol > 0 /\ mpRow # mpCol /\ mpRect[5] # mpRect[6]
    /\ mpRect[1] # FromInt(0) /\ mpRect[3] # FromInt(0)
    /\ mpOut = <<mpRow, mpCol>>

\* C10: a heatmap cell is written only by the +1 increments of its own
\* channel's GenerateHeatmap pass, and once normalization begins no heatmap
\* cell is written again.
C10_WrittenOnlyByOwnPass ==
    [][ \A ch \in Channels, row \in Rows, col \in Cols :
           heat'[ch][row][col] # heat[ch][row][col] =>
              /\ pc = "gen" /\ pc' = "gen"
              /\ ch = Channel
              /\ heat'[ch][row][col] = RAdd(heat[ch][row][col], FromInt(1))
      ]_vars

----------------------------------------------------------------------------
(* One GenerateHeatmap call alone: the call of any of the three channels,  *)
(* entered with GlobalMaxCount still 0.  main reaches the second and the   *)
(* third call in that state when every sample of the calls before was 0,   *)
(* whose trajectory is empty.                                              *)

RunInit ==
    /\ pc = "gen"
    /\ chan \in 1 .. 3
    /\ sampleIdx = 0
    /\ pointsList = <<>>
    /\ heat = [ch \in Channels |-> AllocHeatmap(IMAGE_WIDTH, IMAGE_HEIGHT)]
    /\ maxHeatmapValue = FromInt(0)
    /\ vertices = <<>>
    /\ drawn = [ch \in Channels |-> [c \in Samples |->
                  IF c = Zero /\ \E k \in 1 .. chan - 1 : ChannelOrder[k] = ch
                  THEN SAMPLE_COUNT ELSE 0]]
    /\ stray = FALSE

InitRun == RunInit /\ PointsIdle /\ MapperIdle /\ ColorIdle

NextRun ==
    \/ DrawSample
    \/ SkipPoint
    \/ AccumulatePoint
    \/ StrayFault
    \/ StrayOutside
    \/ StrayInside

SpecRun == InitRun /\ [][NextRun]_vars

\* C11: the first element of a non-empty trajectory is the sample c itself,
\* so between two samples of a GenerateHeatmap call every sample drawn so far
\* whose trajectory is non-empty has incremented the cell of its own sample
\* point, once per draw; hence GlobalMaxCount is 0 only if every sample drawn
\* returned an empty trajectory.
C11_OwnCellIncremented ==
    (pc = "gen" /\ pointsList = <<>>) =>
        \A ch \in Channels, c \in Samples :
           LET pts == buddhabrotPoints(c, Iters(ch))
           IN  (drawn[ch][c] > 0 /\ pts # <<>>) =>
                  /\ pts[1] = c
                  /\ InGrid(RowOf(c), ColOf(c))
                  /\ RLeq(FromInt(drawn[ch][c]), heat[ch][RowOf(c)][ColOf(c)])
                  /\ maxHeatmapValue # FromInt(0)

\* C11 witness: a GenerateHeatmap call has processed all its samples, one of
\* them a sample with a non-empty trajectory and one a sample with an empty
\* trajectory, and the cell of the former holds a count.
C11_Witness ==
    /\ pc = "gen" /\ pointsList = <<>> /\ sampleIdx = SAMPLE_COUNT
    /\ \E c \in Samples :
          /\ drawn[Channel][c] > 0
          /\ buddhabrotPoints(c, Iters(Channel)) # <<>>
          /\ RLeq(FromInt(1), heat[Channel][RowOf(c)][ColOf(c)])
    /\ \E c \in Samples :
          /\ drawn[Channel][c] > 0
          /\ buddhabrotPoints(c, Iters(Channel)) = <<>>
    /\ RLeq(FromInt(1), maxHeatmapValue)

====
